---- MODULE Spec2Model ----
(***************************************************************************)
(* nwm.c: the core of the nwm window manager (window registry, monitor     *)
(* registry, commands, event handlers) as a state machine.                 *)
(*                                                                         *)
(* The program state is the static struct nwm (selected, total_monitors,   *)
(* screen_width, screen_height), the Xlib connection (the output buffer of *)
(* requests not yet sent, the installed error handler) and the part of the *)
(* X server those requests act on.  Every call of nwm_emit is recorded, in *)
(* call order, in `emitted` for the operation that ran last.               *)
(***************************************************************************)
EXTENDS Integers, Sequences, FiniteSets, TLC

VARIABLES
    phase,          \* "boot" before nwm_init, "running" after, "dead" after a crash
    selected,       \* nwm.selected (None when never set)
    total_monitors, \* nwm.total_monitors
    screen_width,   \* nwm.screen_width
    screen_height,  \* nwm.screen_height
    seen_windows,   \* the list of window ids the core holds (nwm.seen_windows)
    keys,           \* nwm.keys: the Key nodes the head pointer leads to, head first
    numlockmask,    \* nwm.numlockmask
    outbuf,         \* Xlib output buffer: requests issued and not yet flushed
    issued,         \* the requests the latest operation issued, in order
    srv,            \* X server: [grabbed, focus, clients, pos, grabs, keymap, modmap]
    xhandler,       \* the installed Xlib error handler
    xerrs,          \* the handlers the latest operation's protocol errors went to
    emitted,        \* the nwm_emit calls of the latest operation, in order
    call,           \* the latest operation: [op, win]
    input,          \* what the latest operation was given / read from the server
    announced,      \* windows announced by onAddWindow, not since by onRemoveWindow
    monitors,       \* monitor ids announced by onAddMonitor, not since by onRemoveMonitor
    queue,          \* the events queued on the connection, oldest first
    pc,             \* where nwm_loop is: "idle" when it is not running
    event,          \* the XEvent of nwm_loop
    arrivals,       \* how many events the server has sent
    taken,          \* the serials of the events XNextEvent returned, in order
    handled         \* the serials of the events whose dispatch has ended, in order

vars == <<phase, selected, total_monitors, screen_width, screen_height,
          seen_windows, keys, numlockmask, outbuf, issued, srv, xhandler, xerrs, emitted, call, input,
          announced, monitors, queue, pc, event, arrivals, taken, handled>>

\* the variables of the dispatch loop
loopvars == <<queue, pc, event, arrivals, taken, handled>>

---------------------------------------------------------------------------
(* Bounds of the model *)

\* client window ids are 1..NumWindows
NumWindows == 2
\* XineramaQueryScreens reports at most this many regions
MaxInfo == 3
\* the controller adds at most this many key bindings
MaxKeys == 2
\* the output buffer holds at most this many requests when a command that
\* does not flush is called
MaxOut == 2
\* the server sends at most this many events
MaxArrivals == 3

---------------------------------------------------------------------------
(* Values *)

None == 0
root == 100
Windows == 1..NumWindows
AnyWindow == Windows \cup {root}

broken == "broken"

\* screen sizes <<width, height>> the server reports (DisplayWidth and
\* DisplayHeight, a ConfigureNotify of the root window)
ScreenSizes == {<<1, 1>>, <<2, 1>>}
\* a movable window's coordinates
Coords == {0, 1}

\* modifier masks are sets of modifier bits: a | b is a \cup b, a & ~b is a \ b
ModifierBits == <<"Shift", "Lock", "Control", "Mod1", "Mod2", "Mod3", "Mod4", "Mod5">>
LockMask == {"Lock"}
NoModifier == {}
\* the keycode AnyKey, which XKeysymToKeycode also returns for a symbol no
\* key produces
AnyKey == 0
XK_Num_Lock == "Num_Lock"

\* event-type codes (X.h) and the size of the dispatch table
TypeKeyPress == 2
TypeButtonPress == 4
TypeEnterNotify == 7
TypeFocusIn == 9
TypeDestroyNotify == 17
TypeUnmapNotify == 18
TypeMapNotify == 19
TypeMapRequest == 20
TypeConfigureNotify == 22
TypeConfigureRequest == 23
TypePropertyNotify == 28
TypeClientMessage == 33
LASTEvent == 36

\* one nwm_emit call: the callback, the id it carries, and the payload
Ev(type, id, info) == [type |-> type, id |-> id, info |-> info]

\* the payload of an event that carries none
NoInfo == [payload |-> "none"]

Rearrange == Ev("onRearrange", None, NoInfo)

SelectEv(s, type)  == SelectSeq(s, LAMBDA e : e.type = type)
SelectEvs(s, types) == SelectSeq(s, LAMBDA e : e.type \in types)
Ids(s) == [i \in 1..Len(s) |-> s[i].id]
Range(s) == {s[i] : i \in 1..Len(s)}

---------------------------------------------------------------------------
(* The Xlib connection and the X server.                                   *)
(* A connection value c = [out, issued, srv, handler, errs] is threaded     *)
(* through a function's statements: a request is appended to the output    *)
(* buffer, and XFlush, XSync and every call that waits for a reply send    *)
(* the buffer to the server, which executes the requests in order.         *)

Req(name, win, arg) == [req |-> name, win |-> win, arg |-> arg]

\* requests that name a window, which must exist
WindowReqs == {"MoveWindow", "ResizeWindow", "ConfigureWindow", "SendEvent",
               "SetInputFocus", "KillClient", "UngrabButton", "GrabButton",
               "SelectInput", "RaiseWindow", "MoveResizeWindow", "MapWindow"}

\* the server answers the request with a protocol error
Fails(s, r) == r.req \in WindowReqs /\ r.win \notin s.clients \cup {root}

\* the server state after executing one request
Exec(s, r) ==
    IF Fails(s, r) THEN s
    ELSE CASE r.req = "GrabServer"    -> [s EXCEPT !.grabbed = TRUE]
           [] r.req = "UngrabServer"  -> [s EXCEPT !.grabbed = FALSE]
           [] r.req = "KillClient"    -> [s EXCEPT !.clients = @ \ {r.win}]
           [] r.req = "SetInputFocus" -> [s EXCEPT !.focus = r.win]
           [] r.req = "MoveWindow"    -> [s EXCEPT !.pos[r.win] = r.arg]
           [] r.req = "UngrabKey"     ->
                [s EXCEPT !.grabs = IF r.arg = <<AnyKey, "AnyModifier">> THEN {}
                                    ELSE @ \ {r.arg}]
           [] r.req = "GrabKey"       -> [s EXCEPT !.grabs = @ \cup {r.arg}]
           [] OTHER                   -> s

\* the server executes a buffer of requests in order; every protocol error
\* goes to the error handler h installed on the connection
RECURSIVE Deliver(_, _, _)
Deliver(s, reqs, h) ==
    IF reqs = <<>> THEN [srv |-> s, errs |-> <<>>]
    ELSE CHOOSE d \in UNION
            {{[srv  |-> rest.srv,
               errs |-> (IF Fails(s0, Head(reqs)) THEN <<h>> ELSE <<>>) \o rest.errs] :
                  rest \in {Deliver(Exec(s0, Head(reqs)), Tail(reqs), h)}} :
               s0 \in {s}} : TRUE

XRequest(c, r) == [c EXCEPT !.out = Append(@, r), !.issued = Append(@, r)]

XFlush(c) ==
    LET d == Deliver(c.srv, c.out, c.handler)
    IN  [c EXCEPT !.out = <<>>, !.srv = d.srv, !.errs = @ \o d.errs]

\* XSync flushes and waits until the server has processed everything
XSync(c) == XFlush(c)

\* a request with a reply (XGetWindowAttributes, XGetTransientForHint,
\* XGetTextProperty, XGetClassHint, XQueryTree, XGetWMProtocols, ...)
RoundTrip(c) == XFlush(c)

XSetErrorHandler(c, h) == [c EXCEPT !.handler = h]

\* the connection as an operation finds it
Conn == [out |-> outbuf, issued |-> <<>>, srv |-> srv, handler |-> xhandler,
         errs |-> <<>>]

\* the state the server is in once it has executed what the buffer holds
Settled(c) == Deliver(c.srv, c.out, c.handler).srv

---------------------------------------------------------------------------
(* The struct nwm, the connection and the nwm_emit calls made so far, as   *)
(* one value n that the statements of an operation update in turn.         *)

Nwm == [selected       |-> selected,
        total_monitors |-> total_monitors,
        screen_width   |-> screen_width,
        screen_height  |-> screen_height,
        keys           |-> keys,
        numlockmask    |-> numlockmask,
        c              |-> Conn,
        ev             |-> <<>>,
        crashed        |-> FALSE]

nwm_emit(n, e) == [n EXCEPT !.ev = Append(@, e)]

\* n with the connection updated by f
OnConn(n, c) == [n EXCEPT !.c = c]

---------------------------------------------------------------------------
(* Helpers of x11_misc.cc *)

\* grabButtons(win, focused): re-arms the button grabs of win
grabButtons(c, win, focused) ==
    XRequest(XRequest(c, Req("UngrabButton", win, focused)),
             Req("GrabButton", win, focused))

\* SendEvent(dpy, win, atom): asks for WM_PROTOCOLS and sends the client
\* message when the window lists the protocol
SendEvent(c, win, atom, supported) ==
    IF supported THEN XRequest(RoundTrip(c), Req("SendEvent", win, atom))
    ELSE RoundTrip(c)

\* gettextprop(dpy, win, atom, text, size): a property is <<>> when unset and
\* <<s>> when it holds the string s; text is emptied first, and the call
\* fails when the property is unset or empty
gettextprop(prop) ==
    IF prop = <<>> \/ prop[1] = ""
    THEN [ok |-> FALSE, text |-> ""]
    ELSE [ok |-> TRUE,  text |-> prop[1]]

\* XKeysymToKeycode(dpy, keysym) on the keyboard mapping the server holds
XKeysymToKeycode(s, keysym) == s.keymap[keysym]

\* updatenumlockmask(dpy): scans the modifier mapping, modifier by modifier,
\* for the keycode of Num_Lock; the first modifier that lists it is the
\* mask, and the mask is 0 when none does
RECURSIVE numlock_scan(_, _)
numlock_scan(s, i) ==
    IF i > Len(ModifierBits) THEN NoModifier
    ELSE IF XKeysymToKeycode(s, XK_Num_Lock) \in s.modmap[i]
         THEN {ModifierBits[i]}
         ELSE numlock_scan(s, i + 1)

updatenumlockmask(s) == numlock_scan(s, 1)

---------------------------------------------------------------------------
(* Key bindings.  nwm.keys is a pointer to the first Key node; the model    *)
(* holds the nodes it leads to, head first, each with the flag `freed`:    *)
(* the node was given to free() and the pointer to it is dangling.         *)

Key(keysym, mod) == [keysym |-> keysym, mod |-> mod, freed |-> FALSE]

\* a walk of the list reads a freed node
Dangling(list) == \E i \in 1..Len(list) : list[i].freed

\* nwm_empty_keys().  Every node is freed and nwm.keys keeps pointing to
\* the first of them.  On a list whose nodes are freed already the walk
\* reads freed memory and frees it again: uaf is what that does, "stale"
\* (the memory still holds the nodes) or "crash".
nwm_empty_keys(n, uaf) ==
    IF Dangling(n.keys) /\ uaf = "crash" THEN [n EXCEPT !.crashed = TRUE]
    ELSE [n EXCEPT !.keys = [i \in 1..Len(n.keys) |-> [n.keys[i] EXCEPT !.freed = TRUE]]]

\* nwm_add_key(&nwm.keys, keysym, mod): the new node leads to the old head
nwm_add_key(n, keysym, mod) ==
    [n EXCEPT !.keys = <<Key(keysym, mod)>> \o @]

\* lines 189-191: the four grabs of one binding, from modifiers[i] on; s is
\* the server whose keyboard mapping the connection holds
RECURSIVE grab_key(_, _, _, _, _)
grab_key(c, s, curr, modifiers, i) ==
    IF i > Len(modifiers) THEN c
    ELSE grab_key(XRequest(c, Req("GrabKey", root,
                      <<XKeysymToKeycode(s, curr.keysym), curr.mod \cup modifiers[i]>>)),
                  s, curr, modifiers, i + 1)

\* lines 186-192: the loop over the list, from node k on
RECURSIVE grab_list(_, _, _, _, _)
grab_list(c, s, list, modifiers, k) ==
    IF k > Len(list) THEN c
    ELSE grab_list(grab_key(c, s, list[k], modifiers, 1), s, list, modifiers, k + 1)

\* the grabs of earlier calls are left in place
nwm_grab_keys_noungrab(n, uaf) ==
    LET c0   == RoundTrip(n.c)
        mask == updatenumlockmask(c0.srv)
        modifiers == <<NoModifier, LockMask, mask, mask \cup LockMask>>
    IN  IF Dangling(n.keys) /\ uaf = "crash"
        THEN [n EXCEPT !.c = c0, !.numlockmask = mask, !.crashed = TRUE]
        ELSE [n EXCEPT !.c = grab_list(c0, n.c.srv, n.keys, modifiers, 1), !.numlockmask = mask]

\* the modifiers are built from the mask the call found, not the one it computes
nwm_grab_keys_oldmask(n, uaf) ==
    LET c0   == RoundTrip(n.c)
        mask == updatenumlockmask(c0.srv)
        modifiers == <<NoModifier, LockMask, n.numlockmask, n.numlockmask \cup LockMask>>
        c1   == XRequest(c0, Req("UngrabKey", root, <<AnyKey, "AnyModifier">>))
    IN  IF Dangling(n.keys) /\ uaf = "crash"
        THEN [n EXCEPT !.c = c1, !.numlockmask = mask, !.crashed = TRUE]
        ELSE [n EXCEPT !.c = grab_list(c1, n.c.srv, n.keys, modifiers, 1), !.numlockmask = mask]

\* nwm_grab_keys(dpy, root).  updatenumlockmask asks the server for the
\* modifier mapping.  When the list leads to freed nodes the loop reads freed
\* memory: uaf is what that does, "stale" or "crash".
nwm_grab_keys(n, uaf) ==
    LET c0   == RoundTrip(n.c)
        mask == updatenumlockmask(c0.srv)
        modifiers == <<NoModifier, LockMask, mask, mask \cup LockMask>>
        c1   == XRequest(c0, Req("UngrabKey", root, <<AnyKey, "AnyModifier">>))
    IN  IF Dangling(n.keys) /\ uaf = "crash"
        THEN [n EXCEPT !.c = c1, !.numlockmask = mask, !.crashed = TRUE]
        ELSE [n EXCEPT !.c = grab_list(c1, n.c.srv, n.keys, modifiers, 1), !.numlockmask = mask]

---------------------------------------------------------------------------
(* Window commands *)

nwm_move_window(n, win, x, y) ==
    OnConn(n, XFlush(XRequest(n.c, Req("MoveWindow", win, <<x, y>>))))

nwm_resize_window(n, win, width, height) ==
    OnConn(n, XFlush(XRequest(n.c, Req("ResizeWindow", win, <<width, height>>))))

nwm_focus_window(n, win, takefocus) ==
    LET c1 == grabButtons(n.c, win, TRUE)
        c2 == XRequest(c1, Req("SetInputFocus", win, "RevertToPointerRoot"))
        c3 == SendEvent(c2, win, "WM_TAKE_FOCUS", takefocus)
        c4 == XFlush(c3)
    IN  [n EXCEPT !.c = c4, !.selected = win]

\* the forced kill returns as soon as XKillClient has raised an error
nwm_kill_window_earlyreturn(n, win, protodel) ==
    LET c0 == RoundTrip(n.c)
    IN  IF protodel
        THEN OnConn(n, XRequest(c0, Req("SendEvent", win, "WM_DELETE_WINDOW")))
        ELSE LET c1 == XRequest(c0, Req("GrabServer", None, <<>>))
                 c2 == XSetErrorHandler(c1, "xerrordummy")
                 c3 == XRequest(c2, Req("SetCloseDownMode", None, "DestroyAll"))
                 c4 == XRequest(c3, Req("KillClient", win, <<>>))
                 c5 == XSync(c4)
                 c6 == XSetErrorHandler(c5, "xerror")
                 c7 == XRequest(c6, Req("UngrabServer", None, <<>>))
             IN  OnConn(n, IF c5.errs # <<>> THEN c6 ELSE c7)

nwm_kill_window(n, win, protodel) ==
    LET c0 == RoundTrip(n.c)    \* isprotodel asks for WM_PROTOCOLS
    IN  IF protodel
        THEN OnConn(n, XRequest(c0, Req("SendEvent", win, "WM_DELETE_WINDOW")))
        ELSE LET c1 == XRequest(c0, Req("GrabServer", None, <<>>))
                 c2 == XSetErrorHandler(c1, "xerrordummy")
                 c3 == XRequest(c2, Req("SetCloseDownMode", None, "DestroyAll"))
                 c4 == XRequest(c3, Req("KillClient", win, <<>>))
                 c5 == XSync(c4)
                 c6 == XSetErrorHandler(c5, "xerror")
                 c7 == XRequest(c6, Req("UngrabServer", None, <<>>))
             IN  OnConn(n, c7)

nwm_configure_window(n, win, wc, value_mask) ==
    OnConn(n, XRequest(n.c, Req("ConfigureWindow", win, <<wc, value_mask>>)))

nwm_notify_window(n, win, geom) ==
    OnConn(n, XRequest(n.c, Req("SendEvent", win, <<"ConfigureNotify", geom>>)))

---------------------------------------------------------------------------
(* Window registry *)

\* nwm_update_window(win).  p is what the server holds for win: the
\* _NET_WM_NAME and WM_NAME properties, the class hint (<<>> when
\* XGetClassHint fails, else <<[res_class, res_name]>>, a NULL member being
\* <<>>), and p.stack, the bytes the arrays klass and instance happen to hold
\* when the function is entered: they are local arrays without initializer.
nwm_update_window(n, win, p) ==
    LET g1    == gettextprop(p.netname)
        name0 == IF g1.ok THEN g1.text ELSE gettextprop(p.wmname).text
        name  == IF name0 = "" THEN broken ELSE name0
        ch    == IF p.hint = <<>> THEN [res_class |-> <<>>, res_name |-> <<>>]
                 ELSE p.hint[1]
        klass == IF p.hint # <<>>
                 THEN (IF ch.res_class # <<>> THEN ch.res_class[1] ELSE broken)
                 ELSE p.stack.klass
        instance == IF p.hint # <<>>
                    THEN (IF ch.res_name # <<>> THEN ch.res_name[1] ELSE broken)
                    ELSE p.stack.instance
        n1    == OnConn(n, RoundTrip(n.c))
    IN  nwm_emit(n1, Ev("onUpdateWindow", win,
                        [title |-> name, klass |-> klass, instance |-> instance]))

\* nwm_add_window(win, wa).  w is the window as the server holds it:
\* w.geom (the geometry in wa), w.trans (WM_TRANSIENT_FOR: <<>> unset,
\* else <<window>>) and w.props (see nwm_update_window).
\* Line 318, the push of win on seen_windows, is commented out in the source.
nwm_add_window(n, win, w) ==
    LET trans      == IF w.trans = <<>> THEN None ELSE w.trans[1]
        isfloating == (trans # None)
        n1 == OnConn(n, RoundTrip(n.c))
        n2 == nwm_emit(n1, Ev("onAddWindow", win,
                              [geom |-> w.geom, isfloating |-> isfloating]))
        n3 == nwm_update_window(n2, win, w.props)
        c1 == XRequest(n3.c, Req("SendEvent", win, <<"ConfigureNotify", w.geom>>))
        c2 == XRequest(c1, Req("SelectInput", win, "window events"))
        c3 == grabButtons(c2, win, FALSE)
        c4 == IF isfloating THEN XRequest(c3, Req("RaiseWindow", win, <<>>)) ELSE c3
        c5 == XRequest(c4, Req("MoveResizeWindow", win, w.geom))
        c6 == XRequest(c5, Req("MapWindow", win, <<>>))
    IN  OnConn(n3, c6)

\* the removal reverts the focus only when the removed window held it
nwm_remove_window_keepfocus(n, win, destroyed, takefocus) ==
    LET n1 == nwm_emit(n, Ev("onRemoveWindow", win, NoInfo))
        c1 == IF ~destroyed
              THEN XRequest(XSync(XRequest(XRequest(n1.c,
                       Req("GrabServer", None, <<>>)),
                       Req("UngrabButton", win, <<>>))),
                       Req("UngrabServer", None, <<>>))
              ELSE n1.c
        n2 == IF n1.selected = win
              THEN nwm_focus_window(OnConn(n1, c1), root, takefocus)
              ELSE OnConn(n1, XFlush(c1))
    IN  nwm_emit(n2, Rearrange)

\* nwm_remove_window(win, destroyed).  Lines 409-411, the removal of win
\* from seen_windows, are commented out in the source.
nwm_remove_window(n, win, destroyed, takefocus) ==
    LET n1 == nwm_emit(n, Ev("onRemoveWindow", win, NoInfo))
        c1 == IF ~destroyed
              THEN XRequest(XSync(XRequest(XRequest(n1.c,
                       Req("GrabServer", None, <<>>)),
                       Req("UngrabButton", win, <<>>))),
                       Req("UngrabServer", None, <<>>))
              ELSE n1.c
        n2 == nwm_focus_window(OnConn(n1, c1), root, takefocus)
    IN  nwm_emit(n2, Rearrange)

\* the first loop of nwm_scan_windows, from child i on
RECURSIVE scan_pass1(_, _, _, _)
scan_pass1(n, wins, attr, i) ==
    IF i > Len(wins) THEN n
    ELSE LET w  == attr[wins[i]]
             n1 == OnConn(n, RoundTrip(n.c))
         IN  IF ~w.readable \/ w.override_redirect \/ w.trans # <<>>
             THEN scan_pass1(n1, wins, attr, i + 1)
             ELSE IF w.viewable
                  THEN scan_pass1(nwm_add_window(n1, wins[i], w), wins, attr, i + 1)
                  ELSE scan_pass1(n1, wins, attr, i + 1)

\* the second loop adds every viewable window, transient or not
RECURSIVE scan_pass2_all(_, _, _, _)
scan_pass2_all(n, wins, attr, i) ==
    IF i > Len(wins) THEN n
    ELSE LET w  == attr[wins[i]]
             n1 == OnConn(n, RoundTrip(n.c))
         IN  IF ~w.readable
             THEN scan_pass2_all(n1, wins, attr, i + 1)
             ELSE IF w.viewable
                  THEN scan_pass2_all(nwm_add_window(n1, wins[i], w), wins, attr, i + 1)
                  ELSE scan_pass2_all(n1, wins, attr, i + 1)

\* the second loop of nwm_scan_windows ("now the transients"), from child i on
RECURSIVE scan_pass2(_, _, _, _)
scan_pass2(n, wins, attr, i) ==
    IF i > Len(wins) THEN n
    ELSE LET w  == attr[wins[i]]
             n1 == OnConn(n, RoundTrip(n.c))
         IN  IF ~w.readable
             THEN scan_pass2(n1, wins, attr, i + 1)
             ELSE IF w.trans # <<>> /\ w.viewable
                  THEN scan_pass2(nwm_add_window(n1, wins[i], w), wins, attr, i + 1)
                  ELSE scan_pass2(n1, wins, attr, i + 1)

\* nwm_scan_windows().  tree is <<>> when XQueryTree fails, else <<wins>>,
\* the children of root in the order the server lists them.
nwm_scan_windows(n, tree, attr) ==
    LET n1 == OnConn(n, RoundTrip(n.c))
    IN  IF tree = <<>> THEN n1
        ELSE scan_pass2(scan_pass1(n1, tree[1], attr, 1), tree[1], attr, 1)

---------------------------------------------------------------------------
(* Monitor registry *)

\* isuniquegeom(unique, n, info) of x11_misc.cc: no region accepted so far
\* has the same x, y, width and height
isuniquegeom(unique, info) == \A k \in 1..Len(unique) : unique[k] # info

\* lines 453-455: the regions of info that are unique, in order
RECURSIVE UniqueRegions(_, _)
UniqueRegions(unique, info) ==
    IF info = <<>> THEN unique
    ELSE UniqueRegions(IF isuniquegeom(unique, Head(info))
                       THEN Append(unique, Head(info)) ELSE unique,
                       Tail(info))

\* nwm_update_selected_monitor().  ptr is <<>> when getrootptr fails,
\* else <<x, y>>.
nwm_update_selected_monitor(n, ptr) ==
    LET n1 == OnConn(n, RoundTrip(n.c))
    IN  IF ptr # <<>>
        THEN nwm_emit(n1, Ev("onEnterNotify", root, [x |-> ptr[1], y |-> ptr[2]]))
        ELSE n1

\* the loop with the test i > nwm.total_monitors in place of >=
RECURSIVE scan_grow_offbyone(_, _, _)
scan_grow_offbyone(n, unique, i) ==
    IF ~(i < Len(unique)) THEN n
    ELSE LET e == [geom |-> unique[i + 1]]
         IN  IF i > n.total_monitors
             THEN scan_grow_offbyone([nwm_emit(n, Ev("onAddMonitor", i, e))
                                        EXCEPT !.total_monitors = @ + 1], unique, i + 1)
             ELSE scan_grow_offbyone(nwm_emit(n, Ev("onUpdateMonitor", i, e)),
                                     unique, i + 1)

\* lines 461-478: the loop over the unique regions, from index i on
\* (indices are the source's, from 0; unique[i + 1] is the C unique[i])
RECURSIVE scan_grow(_, _, _)
scan_grow(n, unique, i) ==
    IF ~(i < Len(unique)) THEN n
    ELSE LET e == [geom |-> unique[i + 1]]
         IN  IF i >= n.total_monitors
             THEN scan_grow([nwm_emit(n, Ev("onAddMonitor", i, e))
                               EXCEPT !.total_monitors = @ + 1], unique, i + 1)
             ELSE scan_grow(nwm_emit(n, Ev("onUpdateMonitor", i, e)), unique, i + 1)

\* lines 481-490: the loop that removes monitors, from index i on; its
\* condition reads nwm.total_monitors, which the body decrements
RECURSIVE scan_shrink(_, _)
scan_shrink(n, i) ==
    IF ~(i < n.total_monitors) THEN n
    ELSE scan_shrink([nwm_emit(n, Ev("onRemoveMonitor", i, NoInfo))
                        EXCEPT !.total_monitors = @ - 1], i + 1)

\* XineramaQueryScreens(dpy, &nn) gave no count: the extension is inactive
\* and nn was left unset
NoCount(x) == ~x.active /\ ~x.nnset

\* nwm_scan_monitors().  x is the display: x.active (XineramaIsActive),
\* x.info (the regions XineramaQueryScreens lists), x.ptr (the pointer), and
\* x.nnset: whether XineramaQueryScreens stored a count in nn.  With the
\* extension inactive it returns NULL, and either stores 0 or, the
\* extension being absent, leaves the uninitialized nn as it is; the loop
\* at 453 then reads info[0] of a NULL info for nn > 0, and malloc is
\* given a negative size for nn < 0.
nwm_scan_monitors(n, x) ==
    IF ~x.active /\ n.total_monitors = 0
    THEN LET n1 == [n EXCEPT !.total_monitors = @ + 1]
             n2 == nwm_emit(n1, Ev("onAddMonitor", 0,
                     [geom |-> <<0, 0, n.screen_width, n.screen_height>>]))
         IN  nwm_update_selected_monitor(n2, x.ptr)
    ELSE IF NoCount(x)
    THEN [n EXCEPT !.crashed = TRUE]
    ELSE LET info   == IF x.active THEN x.info ELSE <<>>
             unique == UniqueRegions(<<>>, info)
             nn     == Len(unique)
             n1     == OnConn(n, RoundTrip(n.c))
             n2     == IF n1.total_monitors <= nn
                       THEN scan_grow(n1, unique, 0)
                       ELSE scan_shrink(n1, nn)
         IN  nwm_update_selected_monitor(n2, x.ptr)

---------------------------------------------------------------------------
(* Startup *)

\* nwm_init().  env is the display as XOpenDisplay finds it: env.width and
\* env.height (the default screen), env.x (see nwm_scan_monitors), env.tree
\* and env.attr (see nwm_scan_windows).
nwm_init(n, env) ==
    LET n0 == [n EXCEPT !.total_monitors = 0, !.keys = <<>>, !.numlockmask = NoModifier]
        n1 == OnConn(n0, XSync(XSetErrorHandler(n0.c, "xerror")))
        n2 == [n1 EXCEPT !.screen_width = env.width, !.screen_height = env.height]
        n3 == nwm_scan_monitors(n2, env.x)
        n4 == nwm_grab_keys(
                  OnConn(n3, XRequest(n3.c, Req("SelectInput", root, "root events"))),
                  "stale")
        n5 == nwm_scan_windows(n4, env.tree, env.attr)
        n6 == nwm_emit(n5, Rearrange)
    IN  OnConn(n6, XSync(n6.c))

---------------------------------------------------------------------------
(* Event handlers *)

\* the membership test answers "not seen" for every window
maprequest_found_never(win) == FALSE

\* line 663 of event_maprequest: Bool found = True; the lookup of
\* ev->window in seen_windows is commented out
maprequest_found(win) == TRUE

\* event_maprequest(e).  wa is <<>> when XGetWindowAttributes fails, else
\* <<w>>, the window as the server holds it (see nwm_add_window).
event_maprequest(n, win, wa) ==
    LET n1 == OnConn(n, RoundTrip(n.c))
    IN  IF wa = <<>> THEN n1
        ELSE IF wa[1].override_redirect THEN n1
        ELSE IF ~maprequest_found(win)
             THEN nwm_emit(nwm_add_window(n1, win, wa[1]), Rearrange)
             ELSE n1

\* the handler without the test for PropertyDelete
event_propertynotify_nodelete(n, win, atom, state, p) ==
    IF win = root /\ atom = "WM_NAME" THEN n
    ELSE IF atom = "WM_NAME" \/ atom = "_NET_WM_NAME"
         THEN nwm_update_window(n, win, p)
         ELSE n

\* event_propertynotify(e).  p is what the server holds for the window
\* (see nwm_update_window).
event_propertynotify(n, win, atom, state, p) ==
    IF win = root /\ atom = "WM_NAME" THEN n
    ELSE IF state = "PropertyDelete" THEN n
    ELSE IF atom = "WM_NAME" \/ atom = "_NET_WM_NAME"
         THEN nwm_update_window(n, win, p)
         ELSE n

event_unmapnotify(n, win, takefocus) == nwm_remove_window(n, win, FALSE, takefocus)

event_destroynotify(n, win, takefocus) == nwm_remove_window(n, win, TRUE, takefocus)

\* line 617 of event_focusin: Bool found = True; the lookup of ev->window
\* in seen_windows is commented out
focusin_found(win) == TRUE

event_focusin(n, win, takefocus) ==
    IF n.selected # None /\ win # n.selected
    THEN IF focusin_found(win)
         THEN nwm_focus_window(n, n.selected, takefocus)
         ELSE n
    ELSE n

\* the handler stores the new size and emits onRearrange without a rescan
event_configurenotify_norescan(n, win, width, height, x) ==
    IF win = root
    THEN nwm_emit([n EXCEPT !.screen_width = width, !.screen_height = height], Rearrange)
    ELSE n

event_configurenotify(n, win, width, height, x) ==
    IF win = root
    THEN LET n1 == [n EXCEPT !.screen_width = width, !.screen_height = height]
             n2 == nwm_scan_monitors(n1, x)
         IN  IF n2.crashed THEN n2 ELSE nwm_emit(n2, Rearrange)
    ELSE n

\* event_buttonpress(e): GrabMouseRelease returns at once
event_buttonpress(n, e) == nwm_emit(n, Ev("onMouseDown", e.window, NoInfo))

\* event_clientmessage(e).  The two XInternAtom calls wait for a reply.
event_clientmessage(n, e, message_type, data) ==
    LET n1 == OnConn(n, RoundTrip(n.c))
    IN  IF message_type = "_NET_WM_STATE" /\ data[2] = "_NET_WM_STATE_FULLSCREEN"
        THEN IF data[1] # 0
             THEN nwm_emit(OnConn(n1,
                      XRequest(XRequest(n1.c,
                          Req("ChangeProperty", e.window, "_NET_WM_STATE_FULLSCREEN")),
                          Req("RaiseWindow", e.window, <<>>))),
                      Ev("onFullscreen", e.window, [fullscreen |-> 1]))
             ELSE nwm_emit(OnConn(n1,
                      XRequest(n1.c, Req("ChangeProperty", e.window, <<>>))),
                      Ev("onFullscreen", e.window, [fullscreen |-> 0]))
        ELSE n1

event_configurerequest(n, e) == nwm_emit(n, Ev("onConfigureRequest", e.window, NoInfo))

event_enternotify(n, e) == nwm_emit(n, Ev("onEnterNotify", e.window, NoInfo))

\* XKeycodeToKeysym(dpy, keycode, 0)
XKeycodeToKeysym(s, keycode) ==
    IF \E k \in DOMAIN s.keymap : s.keymap[k] = keycode /\ keycode # AnyKey
    THEN CHOOSE k \in DOMAIN s.keymap : s.keymap[k] = keycode
    ELSE "NoSymbol"

\* event_keypress(e): the modifier state without numlockmask and LockMask
event_keypress(n, e, keycode, state) ==
    nwm_emit(n, Ev("onKeyPress", e.window,
                   [keycode  |-> keycode,
                    keysym   |-> XKeycodeToKeysym(n.c.srv, keycode),
                    modifier |-> state \ (n.numlockmask \cup LockMask)]))

---------------------------------------------------------------------------
(* The dispatch table and nwm_loop *)

\* lines 63-75: the handler of each event type below LASTEvent, "NULL" where
\* the initializer names none
handler ==
    [t \in 0..(LASTEvent - 1) |->
        CASE t = TypeButtonPress      -> "event_buttonpress"
          [] t = TypeClientMessage    -> "event_clientmessage"
          [] t = TypeConfigureRequest -> "event_configurerequest"
          [] t = TypeConfigureNotify  -> "event_configurenotify"
          [] t = TypeDestroyNotify    -> "event_destroynotify"
          [] t = TypeEnterNotify      -> "event_enternotify"
          [] t = TypeFocusIn          -> "event_focusin"
          [] t = TypeKeyPress         -> "event_keypress"
          [] t = TypeMapRequest       -> "event_maprequest"
          [] t = TypePropertyNotify   -> "event_propertynotify"
          [] t = TypeUnmapNotify      -> "event_unmapnotify"
          [] OTHER                    -> "NULL"]

\* an XEvent: its type, its window and, to tell two events apart, the
\* position at which the server sent it
XEvent(type, window, serial) == [type |-> type, window |-> window, serial |-> serial]
NoEvent == XEvent(0, None, 0)

\* what handler[event.type] is when the expression is evaluated.  For a type
\* of LASTEvent or more the read is past the end of the array: oob is what
\* the read gives, "NULL" (the word after the table is zero) or "crash"
\* (the word is called as a function, or the read of event_names faults).
handler_of(type, oob) ==
    IF type \in DOMAIN handler THEN handler[type] ELSE oob

\* lines 213-217: the call of the handler.  rd is what the event carries
\* besides its type and window, and what the handler reads from the server.
dispatch(n, e, rd, oob) ==
    LET h == handler_of(e.type, oob)
    IN  CASE h = "event_buttonpress"      -> event_buttonpress(n, e)
          [] h = "event_clientmessage"    ->
                event_clientmessage(n, e, rd.message_type, rd.data)
          [] h = "event_configurerequest" -> event_configurerequest(n, e)
          [] h = "event_configurenotify"  ->
                event_configurenotify(n, e.window, rd.width, rd.height, rd.x)
          [] h = "event_destroynotify"    -> event_destroynotify(n, e.window, rd.takefocus)
          [] h = "event_enternotify"      -> event_enternotify(n, e)
          [] h = "event_focusin"          -> event_focusin(n, e.window, rd.takefocus)
          [] h = "event_keypress"         -> event_keypress(n, e, rd.keycode, rd.state)
          [] h = "event_maprequest"       -> event_maprequest(n, e.window, rd.wa)
          [] h = "event_propertynotify"   ->
                event_propertynotify(n, e.window, rd.atom, rd.pstate, rd.props)
          [] h = "event_unmapnotify"      -> event_unmapnotify(n, e.window, rd.takefocus)
          [] h = "crash"                  -> [n EXCEPT !.crashed = TRUE]
          [] OTHER                        -> n

\* the loop goes on whatever XPending reports
loop_continues_always(q) == TRUE

\* line 209: the condition of the loop, XPending(nwm.dpy)
loop_continues(q) == Len(q) # 0

---------------------------------------------------------------------------
(* What the server and the display can hold *)

\* a text property: unset, empty, or a string
NameProps == {<<>>, <<"">>, <<"xterm">>}

\* XGetClassHint: failure, or a hint whose members may be NULL
Hints == {<<>>} \cup
         {<<[res_class |-> a, res_name |-> b]>> :
             a \in {<<>>, <<"XTerm">>}, b \in {<<>>, <<"xterm">>}}

\* what an uninitialized char array may hold: nothing, what an earlier call
\* left on the stack, or by chance the placeholder
StackBytes == {"", "stale", broken}

\* WM_NAME is read only when _NET_WM_NAME gives no text, and the arrays keep
\* their first contents only when XGetClassHint fails: what is not read is
\* left at one value
PropsAll ==
    {p \in [netname : NameProps, wmname : NameProps, hint : Hints,
            stack : [klass : StackBytes, instance : StackBytes]] :
        /\ gettextprop(p.netname).ok => p.wmname = <<>>
        /\ p.hint # <<>> => p.stack = [klass |-> "", instance |-> ""]}

\* windows that set WM_CLASS, with and without a title
PropsClassed ==
    {p \in PropsAll : /\ p.netname = <<>>
                      /\ p.wmname \in {<<>>, <<"xterm">>}
                      /\ p.hint = <<[res_class |-> <<"XTerm">>, res_name |-> <<"xterm">>]>>
                      /\ p.stack = [klass |-> "", instance |-> ""]}

WinGeom == <<0, 0, 1, 1>>

\* a window as the server holds it
AttrsOf(P) == [readable : BOOLEAN, override_redirect : BOOLEAN, viewable : BOOLEAN,
               trans : {<<>>, <<None>>, <<root>>}, geom : {WinGeom}, props : P]

\* XGetWindowAttributes on a window that asks to be mapped: failure, or the
\* window, which is not viewable yet
WaOf(P) == {<<>>} \cup {<<a>> : a \in {b \in AttrsOf(P) : b.readable /\ ~b.viewable}}

\* the regions the multi-head extension can report
MonGeoms == {<<0, 0, 1, 1>>, <<1, 0, 1, 1>>, <<2, 0, 1, 1>>}

RECURSIVE SeqsUpTo(_, _)
SeqsUpTo(S, k) ==
    IF k = 0 THEN {<<>>}
    ELSE LET shorter == SeqsUpTo(S, k - 1)
         IN  shorter \cup {Append(q, e) : q \in {r \in shorter : Len(r) = k - 1}, e \in S}

Pointers == {<<>>, <<0, 0>>}

\* the display as nwm_scan_monitors finds it; an active extension lists at
\* least one region
XActive   == [active : {TRUE}, nnset : {TRUE},
              info : SeqsUpTo(MonGeoms, MaxInfo) \ {<<>>}, ptr : {<<0, 0>>}]
XInactive == [active : {FALSE}, nnset : BOOLEAN, info : {<<>>}, ptr : Pointers]
XSingle   == {x \in XInactive : x.nnset /\ x.ptr = <<>>}

\* XQueryTree: failure, or the children of root in some order
AllWindows == [i \in 1..NumWindows |-> i]

RECURSIVE Perms(_)
Perms(S) ==
    IF S = {} THEN {<<>>}
    ELSE UNION {{<<e>> \o q : q \in Perms(S \ {e})} : e \in S}

Trees == {<<>>} \cup {<<q>> : q \in UNION {Perms(S) : S \in SUBSET Windows}}

\* the symbols the controller binds, and the modifiers it binds them with
KeySyms == {"a", "b"}
KeyMods == {{"Mod4"}, {"Mod4", "Lock"}}

\* the keyboard: the keycode of each symbol (AnyKey when no key produces
\* it) and, for each modifier, the keycodes mapped to it
StandardKeyboard ==
    [keymap |-> [k \in KeySyms \cup {XK_Num_Lock} |->
                    IF k = "a" THEN 38 ELSE IF k = "b" THEN 56 ELSE 77],
     modmap |-> [i \in 1..Len(ModifierBits) |->
                    IF ModifierBits[i] = "Mod2" THEN {77} ELSE {}]]

\* the standard keyboard; one without a key for "b" and without Num_Lock as
\* a modifier; one with Num_Lock mapped to two modifiers
Keyboards ==
    {StandardKeyboard,
     [keymap |-> [StandardKeyboard.keymap EXCEPT !["b"] = AnyKey],
      modmap |-> [i \in 1..Len(ModifierBits) |-> {}]],
     [keymap |-> StandardKeyboard.keymap,
      modmap |-> [i \in 1..Len(ModifierBits) |->
                    IF ModifierBits[i] \in {"Mod3", "Mod5"} THEN {77} ELSE {}]]}

\* what reading freed memory does
UseAfterFree == {"stale", "crash"}

\* the display as nwm_init finds it
EnvOf(X, T, A) == [width : {1}, height : {1}, x : X, tree : T, attr : [Windows -> A]]

\* the windows of the display are ordinary ones: viewable, titled, not
\* transient, not override-redirect
Ordinary == {a \in AttrsOf(PropsClassed) :
                /\ a.readable /\ ~a.override_redirect /\ a.viewable
                /\ a.trans = <<>> /\ a.props.wmname # <<>>}

\* a display without client windows
EnvEmpty(X) == EnvOf(X, {<< <<>> >>}, Ordinary)

\* a display whose windows are all listed and ordinary
EnvOrdinary == EnvOf(XSingle, {<<AllWindows>>}, Ordinary)

\* a window whose attributes cannot be read (it has gone)
Unreadable == [readable |-> FALSE, override_redirect |-> FALSE, viewable |-> FALSE,
               trans |-> <<>>, geom |-> WinGeom,
               props |-> CHOOSE p \in PropsClassed : p.wmname # <<>>]

\* the windows nwm_scan_windows can meet: unreadable, or any combination of
\* override-redirect, viewable and transient
ScanAttrs == {Unreadable} \cup
             {a \in AttrsOf({Unreadable.props}) : a.readable /\ a.trans # <<None>>}

\* a display with any children of root, in any order; the windows that are
\* not children are not looked at
EnvScan == {e \in EnvOf(XSingle, Trees, ScanAttrs) :
               \A w \in Windows :
                  (e.tree = <<>> \/ w \notin Range(e.tree[1])) => e.attr[w] = Unreadable}

\* a display with every window listed and readable
EnvPlain == EnvOf(XSingle, {<<AllWindows>>},
                  {a \in AttrsOf(PropsClassed) : a.readable /\ a.props.wmname # <<>>})

\* the first event-type code of an extension
TypeExtension == 64

\* what an event carries besides its type and window, and what its handler
\* reads from the server
ReadsOf(WA, P, X) ==
    [wa : WA, props : P, takefocus : {FALSE}, x : X,
     width : {1}, height : {1}, atom : {"WM_NAME"}, pstate : {"PropertyNewValue"},
     message_type : {"_NET_WM_STATE"}, data : {<<1, "_NET_WM_STATE_FULLSCREEN">>},
     keycode : {38}, state : {{"Mod4", "Mod2"}}]

\* an ordinary window asks to be mapped on a display with one head
ReadsPlain ==
    ReadsOf({<<a>> : a \in {b \in AttrsOf({Unreadable.props}) :
                               /\ b.readable /\ ~b.override_redirect
                               /\ ~b.viewable /\ b.trans = <<>>}},
            {Unreadable.props}, XSingle)

\* events of the core protocol, with and without a handler
CoreEvents == {<<TypeKeyPress, root>>, <<TypeDestroyNotify, 1>>,
               <<TypeMapNotify, 1>>, <<TypeConfigureNotify, root>>}

\* events without a handler: below LASTEvent, and of an extension
UnhandledEvents == {<<TypeMapNotify, 1>>, <<TypeExtension, 1>>}

\* what the read past the end of the dispatch table gives
OutOfBounds == {"NULL", "crash"}

\* every event type with a handler and one without, on a client window,
\* and the events of the root window: its geometry and its keys
FrameEvents ==
    {<<t, 1>> : t \in {u \in DOMAIN handler : handler[u] # "NULL"} \cup {TypeMapNotify}}
    \cup {<<TypeConfigureNotify, root>>, <<TypeKeyPress, root>>}

\* the root window changes size or keeps it, on a display with one head or
\* with the multi-head extension
ReadsFrame ==
    {[r EXCEPT !.width = size[1], !.height = size[2], !.x = x] :
        r \in ReadsPlain, size \in ScreenSizes,
        x \in XSingle \cup {y \in XActive : y.info = << <<0, 0, 1, 1>> >>}}

\* the commands of the controller
Commands == {"nwm_move_window", "nwm_resize_window", "nwm_focus_window",
             "nwm_kill_window", "nwm_configure_window", "nwm_notify_window",
             "nwm_add_key", "nwm_empty_keys", "nwm_grab_keys"}

\* the command cmd on window win, with one choice of the other arguments
command(n, cmd, win) ==
    CASE cmd = "nwm_move_window"      -> nwm_move_window(n, win, 0, 0)
      [] cmd = "nwm_resize_window"    -> nwm_resize_window(n, win, 1, 1)
      [] cmd = "nwm_focus_window"     -> nwm_focus_window(n, win, FALSE)
      [] cmd = "nwm_kill_window"      -> nwm_kill_window(n, win, FALSE)
      [] cmd = "nwm_configure_window" ->
            nwm_configure_window(n, win, WinGeom, "CWX|CWY|CWWidth|CWHeight")
      [] cmd = "nwm_notify_window"    -> nwm_notify_window(n, win, WinGeom)
      [] cmd = "nwm_add_key"          -> nwm_add_key(n, "a", {"Mod4"})
      [] cmd = "nwm_empty_keys"       -> nwm_empty_keys(n, "stale")
      [] cmd = "nwm_grab_keys"        -> nwm_grab_keys(n, "stale")

---------------------------------------------------------------------------
(* The state machine *)

Init ==
    /\ phase = "boot"
    /\ selected = None
    /\ total_monitors = 0
    /\ screen_width = 0
    /\ screen_height = 0
    /\ seen_windows = <<>>
    /\ outbuf = <<>>
    /\ issued = <<>>
    /\ keys = <<>>
    /\ numlockmask = NoModifier
    /\ srv \in [grabbed : {FALSE}, focus : {None}, clients : {Windows},
                pos : {[w \in Windows |-> <<0, 0>>]}, grabs : {{}},
                keymap : {StandardKeyboard.keymap},
                modmap : {StandardKeyboard.modmap}]
    /\ xhandler = "default"
    /\ xerrs = <<>>
    /\ emitted = <<>>
    /\ call = [op |-> "none", win |-> None]
    /\ input = <<>>
    /\ announced = {}
    /\ monitors = {}
    /\ queue = <<>>
    /\ pc = "idle"
    /\ event = NoEvent
    /\ arrivals = 0
    /\ taken = <<>>
    /\ handled = <<>>

CountEv(ev, type, id) == Len(SelectSeq(ev, LAMBDA e : e.type = type /\ e.id = id))

\* the ids announced by an add event and not since by a remove event
RECURSIVE Live(_, _, _, _)
Live(set, ev, addType, removeType) ==
    IF ev = <<>> THEN set
    ELSE LET e == Head(ev)
         IN  Live(IF e.type = addType THEN set \cup {e.id}
                  ELSE IF e.type = removeType THEN set \ {e.id}
                  ELSE set,
                  Tail(ev), addType, removeType)

\* the operation op(win), given `in`, ran to its end and left n
Return(result, op, win, in) ==
    \E n \in {result} :
       /\ phase' = IF n.crashed THEN "dead" ELSE "running"
       /\ selected' = n.selected
       /\ total_monitors' = n.total_monitors
       /\ screen_width' = n.screen_width
       /\ screen_height' = n.screen_height
       /\ seen_windows' = seen_windows
       /\ keys' = n.keys
       /\ numlockmask' = n.numlockmask
       /\ outbuf' = n.c.out
       /\ issued' = n.c.issued
       /\ srv' = n.c.srv
       /\ xhandler' = n.c.handler
       /\ xerrs' = n.c.errs
       /\ emitted' = n.ev
       /\ call' = [op |-> op, win |-> win]
       /\ input' = in
       /\ announced' = Live(announced, n.ev, "onAddWindow", "onRemoveWindow")
       /\ monitors' = Live(monitors, n.ev, "onAddMonitor", "onRemoveMonitor")

\* an operation called while nwm_loop is where it was
Commit(result, op, win, in) ==
    /\ Return(result, op, win, in)
    /\ UNCHANGED loopvars

Running == phase = "running"

Boot(E) ==
    /\ phase = "boot"
    /\ \E env \in E : Commit(nwm_init(Nwm, env), "nwm_init", None, env)

MapRequest(P) ==
    /\ Running
    /\ \E w \in Windows, wa \in WaOf(P) :
          Commit(event_maprequest(Nwm, w, wa), "event_maprequest", w, wa)

UnmapNotify ==
    /\ Running
    /\ \E w \in Windows, tf \in BOOLEAN :
          Commit(event_unmapnotify(Nwm, w, tf), "event_unmapnotify", w, <<>>)

DestroyNotify ==
    /\ Running
    /\ \E w \in Windows, tf \in BOOLEAN :
          Commit(event_destroynotify(Nwm, w, tf), "event_destroynotify", w, <<>>)

Atoms == {"WM_NAME", "_NET_WM_NAME", "WM_HINTS"}
PropertyStates == {"PropertyNewValue", "PropertyDelete"}

\* the handler reads the window's properties only when it refreshes
Refreshes(w, atom, state, p) ==
    event_propertynotify(Nwm, w, atom, state, p).ev # <<>>

PropertyNotify(P) ==
    /\ Running
    /\ \E w \in AnyWindow, atom \in Atoms, state \in PropertyStates :
       \E p0 \in {CHOOSE p \in P : TRUE} :
       \E reads \in {Refreshes(w, atom, state, p0)} :
       \E p \in IF reads THEN P ELSE {p0} :
          Commit(event_propertynotify(Nwm, w, atom, state, p), "event_propertynotify",
                 w, [atom |-> atom, state |-> state,
                     props |-> IF reads THEN <<p>> ELSE <<>>])

FocusIn ==
    /\ Running
    /\ \E w \in AnyWindow, tf \in BOOLEAN :
          Commit(event_focusin(Nwm, w, tf), "event_focusin", w, <<>>)

\* the handler reads the display only for the root window
ConfigureNotify(X) ==
    /\ Running
    /\ \E w \in AnyWindow, size \in ScreenSizes :
       \E x \in IF w = root THEN X ELSE XSingle :
          Commit(event_configurenotify(Nwm, w, size[1], size[2], x),
                 "event_configurenotify", w, [known |-> total_monitors, x |-> x])

\* the controller's commands
Focus ==
    /\ Running
    /\ \E w \in AnyWindow, tf \in BOOLEAN :
          Commit(nwm_focus_window(Nwm, w, tf), "nwm_focus_window", w, <<>>)

\* isprotodel finds WM_DELETE_WINDOW only on a window that exists
Kill ==
    /\ Running
    /\ \E w \in Windows :
       \E protodel \in IF w \in Settled(Conn).clients THEN BOOLEAN ELSE {FALSE} :
          Commit(nwm_kill_window(Nwm, w, protodel), "nwm_kill_window", w,
                 [protodel |-> protodel, existed |-> w \in Settled(Conn).clients])

Move ==
    /\ Running
    /\ \E w \in Windows, x \in Coords, y \in Coords :
          Commit(nwm_move_window(Nwm, w, x, y), "nwm_move_window", w,
                 [x |-> x, y |-> y, existed |-> w \in Settled(Conn).clients])

Resize ==
    /\ Running
    /\ \E w \in Windows, size \in ScreenSizes :
          Commit(nwm_resize_window(Nwm, w, size[1], size[2]), "nwm_resize_window", w,
                 [width |-> size[1], height |-> size[2]])

\* the XWindowChanges and value mask the controller passes
Changes == {<<WinGeom, "CWX|CWY|CWWidth|CWHeight">>}

Configure ==
    /\ Running
    /\ Len(outbuf) < MaxOut
    /\ \E w \in Windows, ch \in Changes :
          Commit(nwm_configure_window(Nwm, w, ch[1], ch[2]), "nwm_configure_window", w,
                 [wc |-> ch[1], value_mask |-> ch[2]])

Notify ==
    /\ Running
    /\ Len(outbuf) < MaxOut
    /\ \E w \in Windows :
          Commit(nwm_notify_window(Nwm, w, WinGeom), "nwm_notify_window", w,
                 [geom |-> WinGeom])

\* the server sends an event
Arrive(E) ==
    /\ Running
    /\ arrivals < MaxArrivals
    /\ \E e \in E :
          queue' = Append(queue, XEvent(e[1], e[2], arrivals + 1))
    /\ arrivals' = arrivals + 1
    /\ UNCHANGED <<phase, selected, total_monitors, screen_width, screen_height,
                   seen_windows, keys, numlockmask, outbuf, issued, srv, xhandler,
                   xerrs, emitted, call, input, announced, monitors,
                   pc, event, taken, handled>>

\* the host calls nwm_loop
LoopCall ==
    /\ Running
    /\ pc = "idle"
    /\ pc' = "XPending"
    /\ UNCHANGED <<phase, selected, total_monitors, screen_width, screen_height,
                   seen_windows, keys, numlockmask, outbuf, issued, srv, xhandler,
                   xerrs, emitted, call, input, announced, monitors,
                   queue, event, arrivals, taken, handled>>

\* line 209: XPending flushes the output buffer when it finds no event
\* queued, and the loop ends when it reports none
LoopPending ==
    /\ Running
    /\ pc = "XPending"
    /\ pc' = IF loop_continues(queue) THEN "XNextEvent" ELSE "idle"
    /\ \E c \in {IF queue = <<>> THEN XFlush(Conn) ELSE Conn} :
          /\ outbuf' = c.out
          /\ srv' = c.srv
          /\ xerrs' = IF queue = <<>> THEN c.errs ELSE xerrs
    /\ UNCHANGED <<phase, selected, total_monitors, screen_width, screen_height,
                   seen_windows, keys, numlockmask, issued, xhandler,
                   emitted, call, input, announced, monitors,
                   queue, event, arrivals, taken, handled>>

\* line 210: XNextEvent returns the oldest event, and waits while there is none
LoopNextEvent ==
    /\ Running
    /\ pc = "XNextEvent"
    /\ queue # <<>>
    /\ event' = Head(queue)
    /\ queue' = Tail(queue)
    /\ taken' = Append(taken, Head(queue).serial)
    /\ pc' = "handler"
    /\ UNCHANGED <<phase, selected, total_monitors, screen_width, screen_height,
                   seen_windows, keys, numlockmask, outbuf, issued, srv, xhandler,
                   xerrs, emitted, call, input, announced, monitors,
                   arrivals, handled>>

\* lines 213-217: the handler of the event runs to its end
LoopDispatch(R, O) ==
    /\ Running
    /\ pc = "handler"
    /\ \E rd \in R :
       \E oob \in IF event.type \in DOMAIN handler THEN {"NULL"} ELSE O :
          Return(dispatch(Nwm, event, rd, oob), handler_of(event.type, oob),
                 event.window, [type |-> event.type, rd |-> rd])
    /\ handled' = Append(handled, event.serial)
    /\ pc' = "XPending"
    /\ UNCHANGED <<queue, event, arrivals, taken>>

\* the handler of an event, called as nwm_loop calls it; the size of the
\* root window and the display are read only by event_configurenotify
Handle(E, R) ==
    /\ Running
    /\ \E e \in E :
       \E rd \in IF e = <<TypeConfigureNotify, root>> THEN R
                  ELSE {CHOOSE r \in R : TRUE} :
          Commit(dispatch(Nwm, XEvent(e[1], e[2], 0), rd, "NULL"),
                 handler_of(e[1], "NULL"), e[2], [type |-> e[1], rd |-> rd])

\* any command of the controller, on a window of W and with at most K key
\* bindings
Command(W, K) ==
    /\ Running
    /\ \E cmd \in Commands, w \in W :
          /\ cmd \in {"nwm_configure_window", "nwm_notify_window"} => Len(outbuf) < MaxOut
          /\ cmd = "nwm_add_key" => Len(keys) < K
          /\ Commit(command(Nwm, cmd, w), cmd, w, <<>>)

\* the controller's key bindings
AddKey ==
    /\ Running
    /\ Len(keys) < MaxKeys
    /\ \E keysym \in KeySyms, mod \in KeyMods :
          Commit(nwm_add_key(Nwm, keysym, mod), "nwm_add_key", None,
                 [keysym |-> keysym, mod |-> mod])

EmptyKeys ==
    /\ Running
    /\ \E uaf \in IF Dangling(keys) THEN UseAfterFree ELSE {"stale"} :
          Commit(nwm_empty_keys(Nwm, uaf), "nwm_empty_keys", None, [empty |-> keys = <<>>])

GrabKeys ==
    /\ Running
    /\ \E uaf \in IF Dangling(keys) THEN UseAfterFree ELSE {"stale"} :
          Commit(nwm_grab_keys(Nwm, uaf), "nwm_grab_keys", None,
                 [dangling |-> Dangling(keys)])

\* the user remaps the keyboard (xmodmap, a layout switch)
KeyboardChange ==
    /\ Running
    /\ \E kb \in Keyboards :
          /\ srv' = [srv EXCEPT !.keymap = kb.keymap, !.modmap = kb.modmap]
          /\ srv' # srv
    /\ call' = [op |-> "keyboard", win |-> None]
    /\ input' = <<>>
    /\ emitted' = <<>>
    /\ issued' = <<>>
    /\ xerrs' = <<>>
    /\ UNCHANGED <<phase, selected, total_monitors, screen_width, screen_height,
                   seen_windows, keys, numlockmask, outbuf, xhandler,
                   announced, monitors>>
    /\ UNCHANGED loopvars

---------------------------------------------------------------------------
(* Specifications *)

\* the window registry on a single-head display
WinBoot == Boot(EnvPlain)
WinMapRequest == MapRequest(PropsClassed)
WinNext == WinBoot \/ WinMapRequest \/ UnmapNotify \/ DestroyNotify \/ FocusIn \/ Focus
SpecWin == Init /\ [][WinNext]_vars

\* the monitor registry: startup and root geometry changes
MonBoot == Boot(EnvEmpty(XActive \cup XInactive))
MonConfigureNotify == ConfigureNotify(XActive \cup XInactive)
MonNext == MonBoot \/ MonConfigureNotify
SpecMon == Init /\ [][MonNext]_vars

\* the monitor registry on a display with the multi-head extension active
ActiveBoot == Boot(EnvEmpty(XActive))
ActiveConfigureNotify == ConfigureNotify(XActive)
ActiveNext == ActiveBoot \/ ActiveConfigureNotify
SpecActive == Init /\ [][ActiveNext]_vars

\* window metadata: property changes on any window
PropBoot == Boot(EnvOrdinary)
PropPropertyNotify == PropertyNotify(PropsAll)
PropNext == PropBoot \/ PropPropertyNotify
SpecProp == Init /\ [][PropNext]_vars

\* forced and graceful kill, and moves
KillBoot == Boot(EnvOrdinary)
KillNext == KillBoot \/ Kill \/ Move
SpecKill == Init /\ [][KillNext]_vars

\* the scan of the windows that exist at startup
ScanBoot == Boot(EnvScan)
ScanNext == ScanBoot
SpecScan == Init /\ [][ScanNext]_vars

\* nwm_loop on events of the core protocol; the loop, once called, runs on
LoopBoot == Boot(EnvOrdinary)
LoopArrive == Arrive(CoreEvents)
LoopHandler == LoopDispatch(ReadsPlain, {"NULL"})
LoopNext == LoopBoot \/ LoopArrive \/ LoopCall \/ LoopPending \/ LoopNextEvent
            \/ LoopHandler
SpecLoop == /\ Init /\ [][LoopNext]_vars
            /\ WF_vars(LoopPending) /\ WF_vars(LoopNextEvent) /\ WF_vars(LoopHandler)

\* nwm_loop on events that have no handler, extension events among them
ExtBoot == Boot(EnvOrdinary)
ExtArrive == Arrive(UnhandledEvents \cup {<<TypeDestroyNotify, 1>>})
ExtHandler == LoopDispatch(ReadsPlain, OutOfBounds)
ExtNext == ExtBoot \/ ExtArrive \/ LoopCall \/ LoopPending \/ LoopNextEvent
           \/ ExtHandler
SpecLoopExt == Init /\ [][ExtNext]_vars

\* every handler and every command
FrameBoot == Boot(EnvEmpty(XSingle))
FrameHandle == Handle(FrameEvents, ReadsFrame)
FrameCommand == Command({1}, 1)
FrameNext == FrameBoot \/ FrameHandle \/ FrameCommand
SpecFrame == Init /\ [][FrameNext]_vars

\* the geometry commands
CmdBoot == Boot(EnvOrdinary)
CmdMove == Move
CmdNext == CmdBoot \/ CmdMove \/ Resize \/ Configure \/ Notify
SpecCmd == Init /\ [][CmdNext]_vars

\* the key bindings and the keyboard
KeysBoot == Boot(EnvEmpty(XSingle))
KeysNext == KeysBoot \/ AddKey \/ EmptyKeys \/ GrabKeys \/ KeyboardChange
SpecKeys == Init /\ [][KeysNext]_vars

---------------------------------------------------------------------------
(* Properties *)

NoDuplicates(q) == \A i, j \in 1..Len(q) : q[i] = q[j] => i = j

MonitorEvents == SelectEvs(emitted, {"onAddMonitor", "onUpdateMonitor", "onRemoveMonitor"})

\* the latest operation rescanned the monitors: the count it found and the
\* display it read
Rescanned ==
    \/ call.op = "nwm_init"
    \/ call.op = "event_configurenotify" /\ call.win = root
ScanKnown == IF call.op = "nwm_init" THEN 0 ELSE input.known
ScanX     == input.x
ScanUnique == UniqueRegions(<<>>, ScanX.info)

\* C1: after any sequence of add-window and remove-window operations the
\* list of window ids the core holds is exactly the ids announced by
\* onAddWindow and not since by onRemoveWindow, none of them twice.
C1_ManagedSetExact ==
    /\ Range(seen_windows) = announced
    /\ NoDuplicates(seen_windows)

\* C2: a map-request for a window that is not managed, whose attributes are
\* readable and that is not override-redirect emits exactly one onAddWindow
\* for it and ends with onRearrange.
C2_MapRequestAdds ==
    [][(/\ call'.op = "event_maprequest"
        /\ call'.win \notin announced
        /\ input' # <<>>
        /\ ~input'[1].override_redirect)
       => /\ CountEv(emitted', "onAddWindow", call'.win) = 1
          /\ emitted'[Len(emitted')] = Rearrange
          /\ call'.win \in announced']_vars

\* C3: a map-request for a window that is managed (announced by onAddWindow
\* and not removed since) emits no onAddWindow for it and queues no request
\* of nwm_add_window.
C3_NoSecondAdd ==
    [][(call'.op = "event_maprequest" /\ call'.win \in announced)
       => /\ CountEv(emitted', "onAddWindow", call'.win) = 0
          /\ outbuf' = <<>>]_vars

C3_Witness ==
    /\ call.op = "event_maprequest"
    /\ call.win \in announced
    /\ input # <<>>
    /\ ~input[1].override_redirect
    /\ CountEv(emitted, "onAddWindow", call.win) = 0

\* C4: a rescan with the extension active that finds nn unique regions while
\* known > nn monitors are registered emits exactly known - nn
\* onRemoveMonitor events, one for each index in [nn, known), and no other
\* monitor event; from 3 monitors to 1 region these are the events for
\* index 2, then index 1.
C4_ShrinkRemovesEach ==
    (/\ Rescanned
     /\ ScanX.active
     /\ ScanKnown > Len(ScanUnique))
    => /\ Len(MonitorEvents) = ScanKnown - Len(ScanUnique)
       /\ \A e \in Range(MonitorEvents) : e.type = "onRemoveMonitor"
       /\ {e.id : e \in Range(MonitorEvents)} = Len(ScanUnique)..(ScanKnown - 1)
       /\ (ScanKnown = 3 /\ Len(ScanUnique) = 1) => Ids(MonitorEvents) = <<2, 1>>

\* C5: a rescan with the extension active that finds nn unique regions while
\* known <= nn monitors are registered emits one monitor event per index
\* 0..nn-1 in ascending order, onUpdateMonitor for i < known and
\* onAddMonitor for known <= i < nn, each with the region's geometry, and
\* leaves total_monitors = nn.
C5_GrowUpdatesThenAdds ==
    (/\ Rescanned
     /\ ScanX.active
     /\ ScanKnown <= Len(ScanUnique))
    => /\ MonitorEvents =
            [i \in 1..Len(ScanUnique) |->
                Ev(IF i - 1 < ScanKnown THEN "onUpdateMonitor" ELSE "onAddMonitor",
                   i - 1, [geom |-> ScanUnique[i]])]
       /\ total_monitors = Len(ScanUnique)

\* known = 1, nn = 3: update 0, add 1, add 2
C5_Witness ==
    /\ call.op = "event_configurenotify"
    /\ call.win = root
    /\ ScanX.active
    /\ ScanKnown = 1
    /\ Len(ScanUnique) = 3
    /\ Ids(MonitorEvents) = <<0, 1, 2>>
    /\ [i \in 1..3 |-> MonitorEvents[i].type]
         = <<"onUpdateMonitor", "onAddMonitor", "onAddMonitor">>
    /\ total_monitors = 3

\* C6: with the extension inactive, the first rescan (no monitor known) sets
\* the count to 1 and emits exactly one onAddMonitor, id 0 with the bounds of
\* the screen; a later rescan while still inactive leaves the count at 1 and
\* emits no monitor event.
C6_InactiveRescan ==
    (Rescanned /\ ~ScanX.active)
    => /\ ScanKnown = 0 =>
            /\ total_monitors = 1
            /\ MonitorEvents = <<Ev("onAddMonitor", 0,
                                    [geom |-> <<0, 0, screen_width, screen_height>>])>>
       /\ ScanKnown = 1 =>
            /\ total_monitors = 1
            /\ MonitorEvents = <<>>

\* C7: remove(w, destroyed = false) leaves selected = root and emits exactly
\* onRemoveWindow for w and then onRearrange.
C7_RemoveFocusesRoot ==
    call.op = "event_unmapnotify"
    => /\ selected = root
       /\ emitted = <<Ev("onRemoveWindow", call.win, NoInfo), Rearrange>>

C7_Witness ==
    /\ call.op = "event_unmapnotify"
    /\ call.win \in Windows
    /\ selected = root
    /\ srv.focus = root
    /\ Len(SelectEv(emitted, "onRearrange")) = 1

\* the window has no text in _NET_WM_NAME or WM_NAME and no class hint
Anonymous(p) ==
    /\ ~gettextprop(p.netname).ok
    /\ ~gettextprop(p.wmname).ok
    /\ p.hint = <<>>

\* C8: a refresh of a window with no readable name property and no class
\* hint emits onUpdateWindow with title, class and instance all "broken".
C8_AnonymousIsBroken ==
    (/\ call.op = "event_propertynotify"
     /\ input.props # <<>>
     /\ Anonymous(input.props[1]))
    => emitted = <<Ev("onUpdateWindow", call.win,
                      [title |-> broken, klass |-> broken, instance |-> broken])>>

\* C9: a forced kill issues XGrabServer and, after it and before it
\* returns, XUngrabServer, whether or not XKillClient raised a protocol
\* error (which the dummy handler takes); it returns with the error handler
\* restored and no grab outliving the requests it issued.  A move leaves
\* the server ungrabbed, and moves a window that exists without an error.
C9_KillReleasesServer ==
    /\ (call.op = "nwm_kill_window" /\ ~input.protodel)
       => /\ [i \in 1..Len(issued) |-> issued[i].req]
               = <<"GrabServer", "SetCloseDownMode", "KillClient", "UngrabServer">>
          /\ ~Settled(Conn).grabbed
          /\ xhandler = "xerror"
          /\ xerrs = IF input.existed THEN <<>> ELSE <<"xerrordummy">>
    /\ call.op = "nwm_move_window"
       => /\ ~srv.grabbed
          /\ outbuf = <<>>
          /\ input.existed => /\ srv.pos[call.win] = <<input.x, input.y>>
                              /\ xerrs = <<>>

\* a forced kill during which XKillClient raised a protocol error
C9_Witness ==
    /\ call.op = "nwm_kill_window"
    /\ ~input.protodel
    /\ xerrs = <<"xerrordummy">>
    /\ ~Settled(Conn).grabbed

\* C10: a property-notify whose state is PropertyDelete emits no
\* onUpdateWindow, whatever the window and the atom.
C10_DeleteNeverRefreshes ==
    (call.op = "event_propertynotify" /\ input.state = "PropertyDelete")
    => SelectEv(emitted, "onUpdateWindow") = <<>>

C10_Witness ==
    /\ call.op = "event_propertynotify"
    /\ input.state = "PropertyDelete"
    /\ input.atom = "_NET_WM_NAME"
    /\ call.win \in Windows
    /\ emitted = <<>>

\* the key grabs on the root window once the server has read the buffer
GrabsOnRoot == Settled(Conn).grabs

\* the grabs of the bindings in list under the four lock combinations
GrabsOf(list, s) ==
    {<<XKeysymToKeycode(s, list[i].keysym), list[i].mod \cup m>> :
        i \in 1..Len(list),
        m \in {NoModifier, LockMask, updatenumlockmask(s),
               updatenumlockmask(s) \cup LockMask}}

\* C11: nwm_grab_keys called twice in a row, the binding list and the
\* keyboard being the same for both calls, leaves the key grabs on the root
\* window that the first call left (for a list that leads to no freed node).
C11_RegrabIdempotent ==
    [][(/\ call.op = "nwm_grab_keys"
        /\ call'.op = "nwm_grab_keys"
        /\ ~Dangling(keys))
       => /\ keys' = keys
          /\ GrabsOnRoot' = GrabsOnRoot]_vars

\* a second call in a row, with four grabs per binding in place
C11_Witness ==
    /\ call.op = "nwm_grab_keys"
    /\ Len(keys) = 2
    /\ ~Dangling(keys)
    /\ srv.grabs = GrabsOnRoot
    /\ Cardinality(GrabsOnRoot) = 8

\* C12: nwm_empty_keys leaves the binding list empty.
C12_EmptyKeysEmpties ==
    call.op = "nwm_empty_keys" => keys = <<>>

\* C19: after nwm_grab_keys the key grabs on the root window are exactly
\* (keycode of b.keysym, b.mod | m) for every binding b of the list and m in
\* 0, LockMask, numlockmask, numlockmask | LockMask, numlockmask being the
\* mask of the keyboard as it is now (for a list that leads to no freed
\* node).
C19_GrabSetExact ==
    (call.op = "nwm_grab_keys" /\ ~input.dangling)
    => /\ numlockmask = updatenumlockmask(srv)
       /\ GrabsOnRoot = GrabsOf(keys, srv)

\* a regrab after the keyboard changed under grabs that were in place
C19_Witness ==
    /\ call.op = "nwm_grab_keys"
    /\ ~input.dangling
    /\ Len(keys) = 2
    /\ srv.keymap # StandardKeyboard.keymap
    /\ srv.grabs # {}
    /\ srv.grabs # GrabsOnRoot
    /\ GrabsOnRoot = GrabsOf(keys, srv)

\* the XSetInputFocus requests the latest operation issued
FocusRequests == SelectSeq(issued, LAMBDA r : r.req = "SetInputFocus")

\* C15: on a focus-in for window w while a window is selected and w is not
\* it, the handler focuses the selected window again when w is managed
\* (announced by onAddWindow and not removed since) and issues no
\* XSetInputFocus when w is not managed; when w is the selected window or
\* none is selected it issues none.
C15_FocusInRevertsManagedOnly ==
    [][call'.op = "event_focusin"
       => IF selected # None /\ call'.win # selected /\ call'.win \in announced
          THEN /\ Len(FocusRequests') = 1
               /\ FocusRequests'[1].win = selected
               /\ selected' = selected
          ELSE FocusRequests' = <<>>]_vars

\* C16: nwm_move_window, nwm_resize_window, nwm_configure_window and
\* nwm_notify_window each return with the output buffer flushed: none of the
\* requests the call issued is still in it.
C16_CommandsFlush ==
    call.op \in {"nwm_move_window", "nwm_resize_window",
                 "nwm_configure_window", "nwm_notify_window"}
    => outbuf = <<>>

\* the children of root the scan of the latest nwm_init was given
Children == IF input.tree = <<>> THEN {} ELSE Range(input.tree[1])

AddWindowEvents == SelectEv(emitted, "onAddWindow")

\* C18: nwm_scan_windows emits no onAddWindow for a child of root that is
\* override-redirect, transient or not, viewable or not.
C18_ScanSkipsOverrideRedirect ==
    call.op = "nwm_init"
    => \A w \in Children :
          (input.attr[w].readable /\ input.attr[w].override_redirect)
          => CountEv(emitted, "onAddWindow", w) = 0

\* C20: in nwm_scan_windows every onAddWindow for a window that is not
\* transient comes before every onAddWindow for a transient window, and no
\* child of root is announced twice (the attributes of a window being the
\* same in both loops).
C20_TransientsLast ==
    call.op = "nwm_init"
    => /\ NoDuplicates(Ids(AddWindowEvents))
       /\ \A i, j \in 1..Len(AddWindowEvents) :
             (/\ input.attr[AddWindowEvents[i].id].trans = <<>>
              /\ input.attr[AddWindowEvents[j].id].trans # <<>>) => i < j

\* the transient window is listed first and announced last
C20_Witness ==
    /\ call.op = "nwm_init"
    /\ input.tree = << <<1, 2>> >>
    /\ input.attr[1].trans # <<>>
    /\ input.attr[2].trans = <<>>
    /\ Ids(AddWindowEvents) = <<2, 1>>

\* C13: one call of nwm_loop does not wait and ends.  XNextEvent is called
\* only with an event queued; the events are taken in the order the server
\* sent them, each once, and the handler of an event has ended before the
\* next event is taken; the loop returns only with no event queued, and a
\* loop that was called returns.
C13_LoopDrains ==
    /\ [](pc = "XNextEvent" => queue # <<>>)
    /\ [](/\ taken = [i \in 1..Len(taken) |-> i]
          /\ handled = SubSeq(taken, 1, Len(handled))
          /\ Len(taken) - Len(handled) = IF pc = "handler" THEN 1 ELSE 0)
    /\ [][(pc # "idle" /\ pc' = "idle") => queue = <<>>]_vars
    /\ (pc # "idle") ~> (pc = "idle")

\* the loop has returned after three events
C13_Witness ==
    /\ pc = "idle"
    /\ handled = <<1, 2, 3>>
    /\ queue = <<>>
    /\ call.op = "event_destroynotify"

\* C14: for an event whose type has no handler in the dispatch table, a
\* type of LASTEvent or more included, the loop calls no handler, leaves the
\* windows, monitors, keys and focus as they are, and goes on to the next
\* event.
C14_UnhandledDropped ==
    [][(/\ pc = "handler"
        /\ handled' # handled
        /\ (event.type \in DOMAIN handler => handler[event.type] = "NULL"))
       => /\ emitted' = <<>>
          /\ issued' = <<>>
          /\ UNCHANGED <<selected, announced, monitors, total_monitors,
                         keys, numlockmask, srv>>
          /\ phase' = "running"
          /\ pc' = "XPending"]_vars

\* C17: once nwm_init has returned, screen_width and screen_height change
\* only in event_configurenotify for the root window, and that handler then
\* rescans the monitors (it emits a monitor event for the display it read)
\* and emits onRearrange last; no other handler and no command changes them.
C17_ScreenSizeFrame ==
    [][(phase = "running" /\ <<screen_width, screen_height>>' # <<screen_width, screen_height>>)
       => /\ call'.op = "event_configurenotify"
          /\ call'.win = root
          /\ <<screen_width, screen_height>>' = <<input'.rd.width, input'.rd.height>>
          /\ MonitorEvents' # <<>>
          /\ emitted'[Len(emitted')] = Rearrange
          /\ SelectEv(emitted', "onRearrange") = <<Rearrange>>
          /\ input'.rd.x.active => total_monitors' = Len(input'.rd.x.info)]_vars

\* the root window has grown and the monitors were rescanned
C17_Witness ==
    /\ call.op = "event_configurenotify"
    /\ call.win = root
    /\ screen_width = 2
    /\ input.rd.x.active
    /\ MonitorEvents # <<>>
    /\ emitted[Len(emitted)] = Rearrange

\* C21: after any sequence of rescans with the extension active, the monitor
\* ids announced by onAddMonitor and not since by onRemoveMonitor are exactly
\* 0 .. total_monitors - 1, and total_monitors is the number of unique
\* regions the latest rescan found.
C21_MonitorIdsDense ==
    /\ phase = "running" => monitors = 0..(total_monitors - 1)
    /\ Rescanned => total_monitors = Len(ScanUnique)

\* C22: onRemoveWindow is emitted only for a window that is managed: an
\* unmap-notify or destroy-notify for a managed window emits it once, and
\* one for a window that is not managed (never added, or removed already)
\* emits none, issues no XSetInputFocus and leaves the selected window as
\* it is.
C22_RemoveOnlyManaged ==
    [][call'.op \in {"event_unmapnotify", "event_destroynotify"}
       => IF call'.win \in announced
          THEN CountEv(emitted', "onRemoveWindow", call'.win) = 1
          ELSE /\ SelectEv(emitted', "onRemoveWindow") = <<>>
               /\ FocusRequests' = <<>>
               /\ selected' = selected]_vars

====
